---- MODULE Spec2Model ----
(***************************************************************************)
(* DevGear AI chat extension (src/devgear/extension.js).                   *)
(*                                                                         *)
(* The model has three parts:                                              *)
(*   - the webview script (input box, isLoading flag, send(), the message  *)
(*     list of the page with its removal timers, the message handler);     *)
(*   - the extension host (ChatViewProvider: the onDidReceiveMessage       *)
(*     handler and handleChat, one record of `turns' per invocation, with  *)
(*     one action per await at which the invocation is resumed);           *)
(*   - the collaborators handleChat awaits (input box, configuration,      *)
(*     file enumeration and reads, the provider's HTTP API), whose         *)
(*     outcomes are chosen nondeterministically from small sets.           *)
(*                                                                         *)
(* Awaits that separate statements touching only locals of one invocation  *)
(* (fetch and the following response.json()/response.text()) are merged    *)
(* into one action: no other handler can observe the difference.           *)
(***************************************************************************)
EXTENDS Naturals, Sequences, FiniteSets, TLC

VARIABLES
    view,          \* this._view is set (extension.js:39, 45)
    geminiApiKey,  \* the persisted setting devgear.geminiApiKey ("" = unset)
    input,         \* webview: input.value
    isLoading,     \* webview: let isLoading (extension.js:754)
    toHost,        \* messages posted by the webview, not yet delivered
    toView,        \* messages posted by the host, not yet delivered
    turns,         \* one record per handleChat invocation, in start order
    messages,      \* webview: the children of div#messages, in document order
    messageCount,  \* webview: let messageCount (extension.js:755)
    timers,        \* webview: pending setTimeout(() => node.remove(), 300), oldest first
    created,       \* webview: number of nodes created so far (node identities)
    clears         \* clear events delivered to the host so far

dom == <<messages, messageCount, timers, created>>

vars == <<view, geminiApiKey, input, isLoading, toHost, toView, turns, dom, clears>>

(***************************************************************************)
(* Bounds of the model.                                                    *)
(***************************************************************************)
MaxSends == 2      \* chat events the webview posts in one behaviour
MaxModels == 2     \* longest model listing the provider returns
MaxFiles == 1      \* workspace files matching the glob
MaxWorkspace == 11 \* matching files of the large workspace (more than MaxResults)
MaxClears == 1     \* clear events delivered to the host in one behaviour

(***************************************************************************)
(* Program constants.                                                      *)
(***************************************************************************)
DefaultModel == "gemini-1.5-flash"
PreferredFamily == "gemini-1.5"
MaxResults == 10
NoResponse == "No response received"
NoModelsMessage == "No available models found. Please check your API key or region."
ApiKeyRequired == "API key is required. Set it in Settings or use the command \"DevGear AI: Set Gemini API Key\"."
Preamble == "You are DevGear AI. The user is asking about the codebase.\nHere is relevant code context:\n"
QuestionLabel == "\n\nUser question: "

(***************************************************************************)
(* JavaScript values.  An optional value (undefined or a value) is the     *)
(* empty sequence or a one-element sequence.                               *)
(***************************************************************************)
Undefined == <<>>
Some(v) == <<v>>

\* obj?.field on an optional object
Field(opt, f) ==
    IF opt = Undefined THEN Undefined
    ELSE IF f \in DOMAIN opt[1] THEN Some(opt[1][f]) ELSE Undefined

\* arr?.[0] on an optional array
First(opt) ==
    IF opt = Undefined THEN Undefined
    ELSE IF Len(opt[1]) > 0 THEN Some(opt[1][1]) ELSE Undefined

\* !x for an optional string: undefined and "" are falsy
Falsy(opt) == opt = Undefined \/ opt[1] = ""

\* String.prototype.includes
Includes(s, pat) ==
    \E k \in 1..(Len(s) + 1) :
        /\ k + Len(pat) - 1 <= Len(s)
        /\ SubSeq(s, k, k + Len(pat) - 1) = pat

IsSpace(c) == c \in {" ", "\n", "\t"}

RECURSIVE TrimStart(_)
TrimStart(s) ==
    IF Len(s) > 0 /\ IsSpace(SubSeq(s, 1, 1))
    THEN TrimStart(SubSeq(s, 2, Len(s))) ELSE s

RECURSIVE TrimEnd(_)
TrimEnd(s) ==
    IF Len(s) > 0 /\ IsSpace(SubSeq(s, Len(s), Len(s)))
    THEN TrimEnd(SubSeq(s, 1, Len(s) - 1)) ELSE s

\* String.prototype.trim
Trim(s) == TrimEnd(TrimStart(s))

\* Array.prototype.find with the predicate of extension.js:151
RECURSIVE Find(_)
Find(models) ==
    IF Len(models) = 0 THEN Undefined
    ELSE IF Includes(Head(models), PreferredFamily) THEN Some(Head(models))
    ELSE Find(Tail(models))

\* mutant: the preferred family is not looked for
ChooseFirst(models) == models[1]

\* models.find(m => m.includes('gemini-1.5')) || models[0]  (extension.js:151)
ChooseFallback(models) ==
    IF Falsy(Find(models)) THEN models[1] ELSE Find(models)[1]

(***************************************************************************)
(* Messages between the webview and the host.                              *)
(***************************************************************************)
ChatMsg(text) == [type |-> "chat", text |-> text]
LoadingMsg(b) == [type |-> "loading", loading |-> b]
ResponseMsg(m) == [type |-> "response", message |-> m]
ErrorMsg(m) == [type |-> "error", message |-> m]

(***************************************************************************)
(* Requests to the provider, as recorded in a turn's log.                  *)
(***************************************************************************)
GenerateContentRequest(model, apiKey, prompt) ==
    [ev |-> "fetch", method |-> "POST", api |-> "generateContent",
     model |-> model, key |-> apiKey, text |-> prompt]

ModelsRequest(apiKey) ==
    [ev |-> "fetch", method |-> "GET", api |-> "models", key |-> apiKey]

Post(msg) == [ev |-> "postMessage", msg |-> msg]

\* the outcome an awaited request settled with, as recorded in a turn's log
Settled(api, r) == [ev |-> "settled", api |-> api, response |-> r]

\* calls to the editor's API and their results, as recorded in a turn's log
ConfigGet(stored) == [ev |-> "configGet", value |-> stored]
InputBoxResult(v) == [ev |-> "showInputBox", result |-> v]
ConfigUpdate(value) == [ev |-> "configUpdate", value |-> value]
FindFilesCall == [ev |-> "findFiles"]
FindFilesResult(files) == [ev |-> "files", files |-> files]
OpenTextDocument(file, readable) ==
    [ev |-> "openTextDocument", file |-> file, readable |-> readable]

(***************************************************************************)
(* Responses of the provider.  A response either rejects (the fetch        *)
(* promise rejects with `message') or carries a status, the raw body       *)
(* (response.text()) and the parsed body (response.json(), Undefined when  *)
(* the body is not JSON).                                                  *)
(***************************************************************************)
NotFound == 404

Rejected(m) ==
    [rejected |-> TRUE, message |-> m, status |-> 0, raw |-> "", json |-> Undefined]

Response(status, raw, json) ==
    [rejected |-> FALSE, message |-> "", status |-> status, raw |-> raw, json |-> json]

\* response.ok
Ok(r) == r.status >= 200 /\ r.status <= 299

InvalidJson == "invalid json response body"

Candidates(t) == [candidates |-> <<[content |-> [parts |-> <<[text |-> t]>>]]>>]

\* Outcomes of a generateContent request: the session specification uses
\* the first set, the single-turn specification the second.
GenResponses ==
    { Response(200, "{candidates}", Some(Candidates("ok"))),
      Response(NotFound, "model not found", Undefined),
      Response(500, "internal", Undefined) }

GenResponsesAll ==
    GenResponses \cup
    { Rejected("network timeout"),
      Response(200, "{candidates}", Some(Candidates(""))),
      Response(200, "{candidates:[]}", Some([candidates |-> <<>>])),
      Response(200, "{candidates:[{}]}", Some([candidates |-> <<[finishReason |-> "SAFETY"]>>])),
      Response(200, "{parts:[]}", Some([candidates |-> <<[content |-> [parts |-> <<>>]]>>])),
      Response(200, "{}", Some([promptFeedback |-> "blocked"])),
      Response(200, "{error}", Some([error |-> [message |-> "quota exceeded"]])),
      Response(200, "<html>", Undefined),
      Response(NotFound, "{error}", Some([error |-> [message |-> "model is not found"]])),
      Response(403, "forbidden", Undefined) }

ModelIds == {"gemini-pro", "gemini-1.5-pro", "models/gemini-1.5-flash-8b"}

RECURSIVE SeqsUpTo(_, _)
SeqsUpTo(S, n) ==
    IF n = 0 THEN {<<>>}
    ELSE LET shorter == SeqsUpTo(S, n - 1)
         IN shorter \cup {Append(s, x) : s \in shorter, x \in S}

\* the body of a successful listing: { models: [ { name }, ... ] }
Listing(names) ==
    Response(200, "{models}", Some([models |-> [k \in 1..Len(names) |-> [name |-> names[k]]]]))

ListResponses ==
    { Listing(<<>>), Listing(<<"gemini-pro">>), Response(403, "forbidden", Undefined) }

ListResponsesAll ==
    { Listing(names) : names \in SeqsUpTo(ModelIds, MaxModels) } \cup
    { Rejected("network timeout"),
      Response(403, "forbidden", Undefined),
      Response(200, "{}", Some([kind |-> "empty"])),
      Response(200, "<html>", Undefined) }

(***************************************************************************)
(* getAvailableModels (extension.js:71-86), given the outcome of its       *)
(* fetch: every failure is caught and gives the empty array.               *)
(***************************************************************************)
getAvailableModels(r) ==
    IF r.rejected THEN <<>>
    ELSE IF ~Ok(r) THEN <<>>
    ELSE IF r.json = Undefined THEN <<>>
    ELSE IF Field(r.json, "models") = Undefined THEN <<>>
    ELSE LET ms == r.json[1].models
         IN [k \in 1..Len(ms) |-> ms[k].name]

\* mutant: an absent text is not replaced by the placeholder
AiResponseBlank(data) ==
    LET text == Field(First(Field(Field(First(Field(Some(data), "candidates")),
                                        "content"), "parts")), "text")
    IN IF Falsy(text) THEN "" ELSE text[1]

\* data.candidates?.[0]?.content?.parts?.[0]?.text || 'No response received'
\* (extension.js:166, 185)
AiResponse(data) ==
    LET text == Field(First(Field(Field(First(Field(Some(data), "candidates")),
                                        "content"), "parts")), "text")
    IN IF Falsy(text) THEN NoResponse ELSE text[1]

(***************************************************************************)
(* The workspace: the files the glob of extension.js:89 matches.           *)
(***************************************************************************)
FilePool == <<"a.js", "b.md", "c.py">>
Files == {FilePool[k] : k \in 1..MaxFiles}
FileText(f) == IF f = "a.js" THEN "x=1" ELSE IF f = "b.md" THEN "# doc" ELSE "pass"

Distinct(s) == \A j, k \in 1..Len(s) : j # k => s[j] # s[k]

\* results of findFiles: the matching files in any order, capped at MaxResults
FileLists == {s \in SeqsUpTo(Files, MaxFiles) : Distinct(s) /\ Len(s) <= MaxResults}

\* a workspace of n matching files
WorkspaceFile(k) == "f" \o ToString(k) \o ".js"

\* mutant: findFiles called without maxResults
findFilesUncapped(n) == [k \in 1..n |-> WorkspaceFile(k)]

\* findFiles(glob, exclude, 10) on a workspace of n matching files
\* (extension.js:89): the search stops at maxResults
findFiles(n) ==
    [k \in 1..(IF n <= MaxResults THEN n ELSE MaxResults) |-> WorkspaceFile(k)]

SampledLists == {findFiles(n) : n \in 0..MaxWorkspace}

\* the block getWorkspaceContext appends for one file (extension.js:95)
FileBlock(f) == "\n--- FILE: " \o f \o " ---\n" \o FileText(f) \o "\n"

\* the template literal of extension.js:134-136
FullPrompt(codeContext, userMessage) ==
    Preamble \o codeContext \o QuestionLabel \o userMessage

Keys == {"AIzaNew"}
Inputs == {"  ", " hi "}

(***************************************************************************)
(* One handleChat invocation (extension.js:103-203).  pc names the await   *)
(* the invocation is suspended at; log records, in program order, every    *)
(* message it posted to the webview, every request it issued, every call   *)
(* to the editor's API and the outcome of each.                            *)
(***************************************************************************)
NewTurn(userMessage) ==
    [pc |-> "start", userMessage |-> userMessage, apiKey |-> "", model |-> "",
     files |-> <<>>, codeContext |-> "", fullPrompt |-> "", models |-> <<>>,
     log |-> <<>>]

Emit(t, msg) == [t EXCEPT !.log = Append(@, Post(msg))]

Issue(t, req) == [t EXCEPT !.log = Append(@, req)]

\* mutant: the finally block posts nothing
FinallySilent(t) == [t EXCEPT !.pc = "done"]

\* finally (extension.js:200-202)
Finally(t) == [Emit(t, LoadingMsg(FALSE)) EXCEPT !.pc = "done"]

\* mutant: the error path does not reach the finally block
CatchNoFinally(t, message) ==
    [Emit(t, ErrorMsg("Error: " \o message)) EXCEPT !.pc = "done"]

\* outer catch (extension.js:194-199), then finally
Catch(t, message) == Finally(Emit(t, ErrorMsg("Error: " \o message)))

\* mutant: the envelope names the default model whatever was requested last
CatchInnerDefaultModel(t, message) ==
    Catch(t, "Failed with model " \o DefaultModel \o ": " \o message)

\* inner catch (extension.js:191-193), rethrown to the outer catch
CatchInner(t, message) ==
    Catch(t, "Failed with model " \o t.model \o ": " \o message)

\* mutant: the model is a field of the provider, kept from the last turn
StartSamplingPersisted(t) ==
    LET used == {k \in DOMAIN turns : turns[k].model # ""}
        last == CHOOSE k \in used : \A j \in used : j <= k
    IN Issue([t EXCEPT !.model = IF used = {} THEN DefaultModel ELSE turns[last].model,
                       !.pc = "findFiles"], FindFilesCall)

\* extension.js:132-133: let model = ...; await this.getWorkspaceContext()
StartSampling(t) ==
    Issue([t EXCEPT !.model = DefaultModel, !.pc = "findFiles"], FindFilesCall)

\* mutant: the prompt is shown whether or not a credential is stored
BeginAlwaysPrompt(t, stored) ==
    [Issue(Emit(t, LoadingMsg(TRUE)), ConfigGet(stored)) EXCEPT !.pc = "showInputBox"]

\* synchronous start of handleChat, up to its first await (extension.js:109-115, 132-133)
Begin(t, stored) ==
    LET t1 == Issue(Emit(t, LoadingMsg(TRUE)), ConfigGet(stored))
    IN IF stored = ""
       THEN [t1 EXCEPT !.pc = "showInputBox"]
       ELSE StartSampling([t1 EXCEPT !.apiKey = stored])

\* mutant: a dismissed prompt ends the turn without an error event
AfterInputBoxSilent(t, v) ==
    IF Falsy(v)
    THEN Finally(t)
    ELSE [t EXCEPT !.apiKey = v[1], !.pc = "configUpdate"]

\* mutant: the missing-credential branch does not return
AfterInputBoxNoReturn(t, v) ==
    LET key == IF v = Undefined THEN "" ELSE v[1]
        t1 == IF Falsy(v) THEN Emit(t, ErrorMsg(ApiKeyRequired)) ELSE t
    IN Issue([t1 EXCEPT !.apiKey = key, !.pc = "configUpdate"], ConfigUpdate(key))

\* extension.js:115-129, resumed with the input box's result
AfterInputBox(t, v) ==
    IF Falsy(v)
    THEN Finally(Emit(t, ErrorMsg(ApiKeyRequired)))
    ELSE Issue([t EXCEPT !.apiKey = v[1], !.pc = "configUpdate"], ConfigUpdate(v[1]))

\* extension.js:134-145: build the prompt and issue the first request
FirstRequest(t) ==
    LET p == FullPrompt(t.codeContext, t.userMessage)
    IN Issue([t EXCEPT !.fullPrompt = p, !.pc = "fetch"],
             GenerateContentRequest(t.model, t.apiKey, p))

\* extension.js:89-91, resumed with the files findFiles returned
AfterFindFiles(t, files) ==
    IF Len(files) = 0 THEN FirstRequest(t)
    ELSE [t EXCEPT !.files = files, !.pc = "openTextDocument"]

\* extension.js:91-99: one iteration of the loop, the read succeeding or throwing
AfterOpenTextDocument(t, readable) ==
    LET f == Head(t.files)
        t1 == [t EXCEPT !.files = Tail(@),
                        !.codeContext = IF readable THEN @ \o FileBlock(f) ELSE @]
    IN IF Len(t1.files) = 0 THEN FirstRequest(t1) ELSE t1

\* mutant: the response is posted after the finally block has run
SuccessAfterFinally(t, r) ==
    IF r.json = Undefined THEN CatchInner(t, InvalidJson)
    ELSE IF Field(r.json, "error") # Undefined
         THEN CatchInner(t, r.json[1].error.message)
         ELSE Emit(Finally(t), ResponseMsg(AiResponse(r.json[1])))

\* extension.js:179-190 and 162-171: a response with response.ok
Success(t, r) ==
    IF r.json = Undefined THEN CatchInner(t, InvalidJson)
    ELSE IF Field(r.json, "error") # Undefined
         THEN CatchInner(t, r.json[1].error.message)
         ELSE Finally(Emit(t, ResponseMsg(AiResponse(r.json[1]))))

ApiError(r) == "API Error: " \o ToString(r.status) \o " - " \o r.raw

\* mutant: every non-2xx status, not only 404, starts the fallback
FirstAttemptAnyStatus(t, r) ==
    IF r.rejected THEN CatchInner(t, r.message)
    ELSE IF ~Ok(r)
         THEN Issue([t EXCEPT !.pc = "getAvailableModels"], ModelsRequest(t.apiKey))
         ELSE Success(t, r)

\* extension.js:138-149, 176-193, given the outcome of the first request
FirstAttempt(t, r) ==
    IF r.rejected THEN CatchInner(t, r.message)
    ELSE IF ~Ok(r)
         THEN IF r.status = NotFound
              THEN Issue([t EXCEPT !.pc = "getAvailableModels"], ModelsRequest(t.apiKey))
              ELSE CatchInner(t, ApiError(r))
         ELSE Success(t, r)

\* the first request settles
AfterFetch(t, r) == FirstAttempt(Issue(t, Settled("generateContent", r)), r)

\* mutant: the guard tests the array (always truthy), not its length
FallbackAlways(t, models) ==
    LET t2 == [t EXCEPT !.models = models,
                        !.model = IF Len(models) > 0 THEN ChooseFallback(models)
                                  ELSE "undefined",
                        !.pc = "retryFetch"]
    IN Issue(t2, GenerateContentRequest(t2.model, t2.apiKey, t2.fullPrompt))

\* mutant: the retry samples nothing and builds its prompt anew
FallbackRebuild(t, models) ==
    IF Len(models) > 0
    THEN LET t2 == [t EXCEPT !.models = models, !.model = ChooseFallback(models),
                             !.pc = "retryFetch"]
         IN Issue(t2, GenerateContentRequest(t2.model, t2.apiKey,
                                             FullPrompt("", t2.userMessage)))
    ELSE CatchInner([t EXCEPT !.models = models], NoModelsMessage)

\* extension.js:150-158, 172-174, given the models the listing yielded
Fallback(t, models) ==
    IF Len(models) > 0
    THEN LET t2 == [t EXCEPT !.models = models, !.model = ChooseFallback(models),
                             !.pc = "retryFetch"]
         IN Issue(t2, GenerateContentRequest(t2.model, t2.apiKey, t2.fullPrompt))
    ELSE CatchInner([t EXCEPT !.models = models], NoModelsMessage)

\* mutant: a failed listing is not caught in getAvailableModels
AfterModelsRaising(t, r) ==
    IF r.rejected THEN CatchInner(Issue(t, Settled("models", r)), r.message)
    ELSE IF ~Ok(r)
         THEN CatchInner(Issue(t, Settled("models", r)),
                         "Failed to fetch models: " \o ToString(r.status))
         ELSE Fallback(Issue(t, Settled("models", r)), getAvailableModels(r))

\* extension.js:149: the listing settles
AfterModels(t, r) == Fallback(Issue(t, Settled("models", r)), getAvailableModels(r))

\* mutant: a 404 of the retry starts the fallback again
RetryChained(t, r) ==
    IF r.rejected THEN CatchInner(t, r.message)
    ELSE IF ~Ok(r)
         THEN IF r.status = NotFound
              THEN Issue([t EXCEPT !.pc = "getAvailableModels"], ModelsRequest(t.apiKey))
              ELSE CatchInner(t, ApiError(r))
         ELSE Success(t, r)

\* extension.js:159-171, 191-193, given the outcome of the retry
Retry(t, r) ==
    IF r.rejected THEN CatchInner(t, r.message)
    ELSE IF ~Ok(r) THEN CatchInner(t, ApiError(r))
    ELSE Success(t, r)

\* the retry settles
AfterRetry(t, r) == Retry(Issue(t, Settled("generateContent", r)), r)

(***************************************************************************)
(* Actions.                                                                *)
(***************************************************************************)
RECURSIVE PostsOf(_)
PostsOf(entries) ==
    IF Len(entries) = 0 THEN <<>>
    ELSE IF Head(entries).ev = "postMessage"
         THEN <<Head(entries).msg>> \o PostsOf(Tail(entries))
         ELSE PostsOf(Tail(entries))

\* the messages a step of a turn posted: they reach the webview in order
NewPosts(old, new) == PostsOf(SubSeq(new.log, Len(old.log) + 1, Len(new.log)))

Resume(i, new) ==
    /\ turns' = [turns EXCEPT ![i] = new]
    /\ toView' = toView \o NewPosts(turns[i], new)

(***************************************************************************)
(* The page of the webview: the children of div#messages, each a node with *)
(* an identity and a kind (the welcome block, a user or ai message, the    *)
(* typing indicator, an error block).                                      *)
(***************************************************************************)
Node(id, kind) == [id |-> id, kind |-> kind]

\* the page as the HTML of extension.js:717-730 builds it
InitialDom ==
    [messages |-> <<Node(0, "welcome")>>, messageCount |-> 0, timers |-> <<>>, created |-> 0]

Dom == [messages |-> messages, messageCount |-> messageCount,
        timers |-> timers, created |-> created]

\* the page is d
Page(d) ==
    /\ messages = d.messages
    /\ messageCount = d.messageCount
    /\ timers = d.timers
    /\ created = d.created

Render(d) ==
    /\ messages' = d.messages
    /\ messageCount' = d.messageCount
    /\ timers' = d.timers
    /\ created' = d.created

\* querySelector('.welcome') / getElementById('typing-indicator'): the first
\* node of the kind in document order, or null
querySelector(d, kind) ==
    LET S == {k \in DOMAIN d.messages : d.messages[k].kind = kind}
    IN IF S = {} THEN Undefined
       ELSE Some(d.messages[CHOOSE k \in S : \A j \in S : k <= j])

appendChild(d, kind) ==
    [d EXCEPT !.created = @ + 1, !.messages = Append(@, Node(d.created + 1, kind))]

\* setTimeout(() => node.remove(), 300) (extension.js:790, 901)
setTimeout(d, node) == [d EXCEPT !.timers = Append(@, node.id)]

\* the oldest timer fires: node.remove(), a no-op on a detached node
remove(d) ==
    LET Attached(n) == n.id # Head(d.timers)
    IN [d EXCEPT !.timers = Tail(@), !.messages = SelectSeq(@, Attached)]

\* addMessage (extension.js:810-849)
addMessage(d, sender) ==
    appendChild([d EXCEPT !.messageCount = @ + 1], sender)

\* showTypingIndicator (extension.js:859-895)
showTypingIndicator(d) == appendChild(d, "typing")

\* removeTypingIndicator (extension.js:897-903)
removeTypingIndicator(d) ==
    LET indicator == querySelector(d, "typing")
    IN IF indicator = Undefined THEN d ELSE setTimeout(d, indicator[1])

\* what send() does to the page (extension.js:787-793)
sendDom(d) ==
    LET welcome == querySelector(d, "welcome")
    IN addMessage(IF welcome = Undefined THEN d ELSE setTimeout(d, welcome[1]), "user")

\* case 'clearChat' (extension.js:948-953): createWelcomeMessage() clones
\* the welcome block of the page and throws when there is none, before
\* anything is changed
clearChat(d) ==
    IF querySelector(d, "welcome") = Undefined THEN d
    ELSE [appendChild([d EXCEPT !.messages = <<>>], "welcome") EXCEPT !.messageCount = 0]

\* the message handler of the webview (extension.js:906-955), the page part
onMessage(d, message) ==
    IF message.type = "response" THEN addMessage(removeTypingIndicator(d), "ai")
    ELSE IF message.type = "loading"
         THEN IF message.loading THEN showTypingIndicator(d) ELSE removeTypingIndicator(d)
    ELSE IF message.type = "error" THEN appendChild(removeTypingIndicator(d), "error")
    ELSE IF message.type = "clearChat" THEN clearChat(d)
    ELSE d

\* extension.js:42-69
ResolveWebviewView ==
    /\ ~view
    /\ view' = TRUE
    /\ UNCHANGED <<geminiApiKey, input, isLoading, toHost, toView, turns, dom, clears>>

\* the user edits the input box
TypeInput ==
    /\ view
    /\ \E v \in Inputs : v # input /\ input' = v
    /\ UNCHANGED <<view, geminiApiKey, isLoading, toHost, toView, turns, dom, clears>>

Posted == Len(turns) + Len(toHost)

\* mutant: send() does not test isLoading
SendWhileLoading ==
    /\ view
    /\ Posted < MaxSends
    /\ IF Trim(input) = ""
       THEN UNCHANGED <<input, toHost, dom>>
       ELSE /\ input' = ""
            /\ toHost' = Append(toHost, ChatMsg(Trim(input)))
            /\ Render(sendDom(Dom))
    /\ UNCHANGED <<view, geminiApiKey, isLoading, toView, turns, clears>>

\* send() (extension.js:781-799)
Send ==
    /\ view
    /\ Posted < MaxSends
    /\ IF Trim(input) = "" \/ isLoading
       THEN UNCHANGED <<input, toHost, dom>>
       ELSE /\ input' = ""
            /\ toHost' = Append(toHost, ChatMsg(Trim(input)))
            /\ Render(sendDom(Dom))
    /\ UNCHANGED <<view, geminiApiKey, isLoading, toView, turns, clears>>

\* window message listener (extension.js:906-955)
WebviewReceive ==
    /\ toView # <<>>
    /\ toView' = Tail(toView)
    /\ isLoading' = IF Head(toView).type = "loading" THEN Head(toView).loading ELSE isLoading
    /\ Render(onMessage(Dom, Head(toView)))
    /\ UNCHANGED <<view, geminiApiKey, input, toHost, turns, clears>>

\* a timer of extension.js:790 or 901 fires: node.remove()
TimerFire ==
    /\ timers # <<>>
    /\ Render(remove(Dom))
    /\ UNCHANGED <<view, geminiApiKey, input, isLoading, toHost, toView, turns, clears>>

\* a clear event reaches the listener of extension.js:52.  The webview
\* script posts none (its keydown handler, extension.js:980-988, binds no
\* clear shortcut), so the action is part of SpecView only.
Clear ==
    /\ view
    /\ clears < MaxClears
    /\ clears' = clears + 1
    /\ toHost' = Append(toHost, [type |-> "clear"])
    /\ UNCHANGED <<view, geminiApiKey, input, isLoading, toView, turns, dom>>

\* mutant: handleChat without the view guard
handleChatUnguarded(userMessage) ==
    LET t == Begin(NewTurn(userMessage), geminiApiKey)
    IN /\ turns' = Append(turns, t)
       /\ toView' = toView \o PostsOf(t.log)

\* handleChat up to its first await (extension.js:103-115, 132-133)
handleChat(userMessage) ==
    IF ~view
    THEN UNCHANGED <<toView, turns>>
    ELSE LET t == Begin(NewTurn(userMessage), geminiApiKey)
         IN /\ turns' = Append(turns, t)
            /\ toView' = toView \o PostsOf(t.log)

\* onDidReceiveMessage listener (extension.js:52-63)
HostReceive ==
    /\ toHost # <<>>
    /\ toHost' = Tail(toHost)
    /\ IF Head(toHost).type = "chat"
       THEN handleChat(Head(toHost).text)
       ELSE IF Head(toHost).type = "clear"
            THEN toView' = Append(toView, [type |-> "clearChat"]) /\ UNCHANGED turns
            ELSE UNCHANGED <<toView, turns>>
    /\ UNCHANGED <<view, geminiApiKey, input, isLoading, dom, clears>>

At(i, pc) == i \in 1..Len(turns) /\ turns[i].pc = pc

InputBoxResolve(i) ==
    /\ At(i, "showInputBox")
    /\ \E v \in {Undefined, Some("")} \cup {Some(k) : k \in Keys} :
           Resume(i, AfterInputBox(Issue(turns[i], InputBoxResult(v)), v))
    /\ UNCHANGED <<view, geminiApiKey, input, isLoading, toHost, dom, clears>>

\* config.update (extension.js:129) resolves: the setting is written
ConfigUpdateResolve(i) ==
    /\ At(i, "configUpdate")
    /\ geminiApiKey' = turns[i].apiKey
    /\ Resume(i, StartSampling(turns[i]))
    /\ UNCHANGED <<view, input, isLoading, toHost, dom, clears>>

\* config.update rejects
ConfigUpdateReject(i) ==
    /\ At(i, "configUpdate")
    /\ Resume(i, Catch(turns[i], "Unable to write into user settings"))
    /\ UNCHANGED <<view, geminiApiKey, input, isLoading, toHost, dom, clears>>

FindFilesResolve(i, Lists) ==
    /\ At(i, "findFiles")
    /\ \E files \in Lists :
           Resume(i, AfterFindFiles(Issue(turns[i], FindFilesResult(files)), files))
    /\ UNCHANGED <<view, geminiApiKey, input, isLoading, toHost, dom, clears>>

\* findFiles rejects: getWorkspaceContext rejects outside the inner try
FindFilesReject(i) ==
    /\ At(i, "findFiles")
    /\ Resume(i, Catch(turns[i], "findFiles failed"))
    /\ UNCHANGED <<view, geminiApiKey, input, isLoading, toHost, dom, clears>>

OpenTextDocumentResolve(i) ==
    /\ At(i, "openTextDocument")
    /\ \E readable \in BOOLEAN :
           Resume(i, AfterOpenTextDocument(
                         Issue(turns[i], OpenTextDocument(Head(turns[i].files), readable)),
                         readable))
    /\ UNCHANGED <<view, geminiApiKey, input, isLoading, toHost, dom, clears>>

FetchResolve(i, R) ==
    /\ At(i, "fetch")
    /\ \E r \in R : Resume(i, AfterFetch(turns[i], r))
    /\ UNCHANGED <<view, geminiApiKey, input, isLoading, toHost, dom, clears>>

ModelsResolve(i, L) ==
    /\ At(i, "getAvailableModels")
    /\ \E r \in L : Resume(i, AfterModels(turns[i], r))
    /\ UNCHANGED <<view, geminiApiKey, input, isLoading, toHost, dom, clears>>

RetryResolve(i, R) ==
    /\ At(i, "retryFetch")
    /\ \E r \in R : Resume(i, AfterRetry(turns[i], r))
    /\ UNCHANGED <<view, geminiApiKey, input, isLoading, toHost, dom, clears>>

(***************************************************************************)
(* The session: webview, host and collaborators.                           *)
(***************************************************************************)
Init ==
    /\ view = FALSE
    /\ geminiApiKey \in {"", "AIzaStored"}
    /\ input = ""
    /\ isLoading = FALSE
    /\ toHost = <<>>
    /\ toView = <<>>
    /\ turns = <<>>
    /\ Page(InitialDom)
    /\ clears = 0

Next ==
    \/ ResolveWebviewView
    \/ TypeInput
    \/ Send
    \/ WebviewReceive
    \/ TimerFire
    \/ HostReceive
    \/ \E i \in 1..MaxSends : InputBoxResolve(i)
    \/ \E i \in 1..MaxSends : ConfigUpdateResolve(i)
    \/ \E i \in 1..MaxSends : ConfigUpdateReject(i)
    \/ \E i \in 1..MaxSends : FindFilesResolve(i, FileLists)
    \/ \E i \in 1..MaxSends : FindFilesReject(i)
    \/ \E i \in 1..MaxSends : OpenTextDocumentResolve(i)
    \/ \E i \in 1..MaxSends : FetchResolve(i, GenResponses)
    \/ \E i \in 1..MaxSends : ModelsResolve(i, ListResponses)
    \/ \E i \in 1..MaxSends : RetryResolve(i, GenResponses)

Spec == Init /\ [][Next]_vars

(***************************************************************************)
(* One turn: a chat event is delivered to the host of a resolved view and  *)
(* the turn runs against every outcome of its collaborators.               *)
(***************************************************************************)
InitTurn ==
    /\ view = TRUE
    /\ geminiApiKey \in {"", "AIzaStored"}
    /\ input = ""
    /\ isLoading = FALSE
    /\ toHost \in {<<ChatMsg(q)>> : q \in {"hi", "why?"}}
    /\ toView = <<>>
    /\ turns = <<>>
    /\ Page(sendDom(InitialDom))
    /\ clears = 0

NextTurn ==
    \/ HostReceive
    \/ InputBoxResolve(1)
    \/ ConfigUpdateResolve(1)
    \/ ConfigUpdateReject(1)
    \/ FindFilesResolve(1, FileLists)
    \/ FindFilesReject(1)
    \/ OpenTextDocumentResolve(1)
    \/ FetchResolve(1, GenResponsesAll)
    \/ ModelsResolve(1, ListResponsesAll)
    \/ RetryResolve(1, GenResponsesAll)

SpecTurn == InitTurn /\ [][NextTurn]_vars

(***************************************************************************)
(* One turn in a workspace of up to MaxWorkspace matching files: the       *)
(* sampling of getWorkspaceContext with every combination of readable and  *)
(* unreadable files.                                                       *)
(***************************************************************************)
InitSampler ==
    /\ view = TRUE
    /\ geminiApiKey = "AIzaStored"
    /\ input = ""
    /\ isLoading = FALSE
    /\ toHost = <<ChatMsg("hi")>>
    /\ toView = <<>>
    /\ turns = <<>>
    /\ Page(sendDom(InitialDom))
    /\ clears = 0

NextSampler ==
    \/ HostReceive
    \/ FindFilesResolve(1, SampledLists)
    \/ FindFilesReject(1)
    \/ OpenTextDocumentResolve(1)
    \/ FetchResolve(1, {Response(200, "{candidates}", Some(Candidates("ok"))),
                         Response(NotFound, "model not found", Undefined)})
    \/ ModelsResolve(1, {Listing(<<"gemini-pro">>)})
    \/ RetryResolve(1, {Response(200, "{candidates}", Some(Candidates("ok")))})

SpecSampler == InitSampler /\ [][NextSampler]_vars

(***************************************************************************)
(* Turns one after the other: the next chat event is posted when every     *)
(* earlier turn has finished.                                              *)
(***************************************************************************)
InitSeq ==
    /\ view = TRUE
    /\ geminiApiKey = "AIzaStored"
    /\ input = ""
    /\ isLoading = FALSE
    /\ toHost = <<>>
    /\ toView = <<>>
    /\ turns = <<>>
    /\ Page(InitialDom)
    /\ clears = 0

\* the webview posts a chat event (extension.js:798)
NextChat ==
    /\ toHost = <<>>
    /\ Len(turns) < MaxSends
    /\ \A i \in 1..Len(turns) : turns[i].pc = "done"
    /\ toHost' = <<ChatMsg("hi")>>
    /\ Render(sendDom(Dom))
    /\ UNCHANGED <<view, geminiApiKey, input, isLoading, toView, turns, clears>>

NextSeq ==
    \/ NextChat
    \/ HostReceive
    \/ \E i \in 1..MaxSends : FindFilesResolve(i, FileLists)
    \/ \E i \in 1..MaxSends : OpenTextDocumentResolve(i)
    \/ \E i \in 1..MaxSends : FetchResolve(i, GenResponses)
    \/ \E i \in 1..MaxSends : ModelsResolve(i, ListResponses)
    \/ \E i \in 1..MaxSends : RetryResolve(i, GenResponses)

SpecSeq == InitSeq /\ [][NextSeq]_vars

(***************************************************************************)
(* The webview and the host with a credential stored, an empty workspace   *)
(* and a provider that answers 200 or 500: the page, its timers and the    *)
(* clear event.                                                            *)
(***************************************************************************)
NextView ==
    \/ TypeInput
    \/ Send
    \/ WebviewReceive
    \/ TimerFire
    \/ Clear
    \/ HostReceive
    \/ \E i \in 1..MaxSends : FindFilesResolve(i, {<<>>})
    \/ \E i \in 1..MaxSends :
           FetchResolve(i, {Response(200, "{candidates}", Some(Candidates("ok"))),
                            Response(500, "internal", Undefined)})

SpecView == InitSeq /\ [][NextView]_vars

\* the same without clear events, which the webview script never posts
NextSend ==
    \/ TypeInput
    \/ Send
    \/ WebviewReceive
    \/ TimerFire
    \/ HostReceive
    \/ \E i \in 1..MaxSends : FindFilesResolve(i, {<<>>})
    \/ \E i \in 1..MaxSends :
           FetchResolve(i, {Response(200, "{candidates}", Some(Candidates("ok"))),
                            Response(500, "internal", Undefined)})

SpecSend == InitSeq /\ [][NextSend]_vars

(***************************************************************************)
(* The webview and the host under the assumption that pending work is      *)
(* eventually done: an await of a turn settles, a delivered message is     *)
(* handled, a due timer fires.  Weak fairness of the disjunction of these  *)
(* steps is assumed; the user's typing and sending are not fair.  The      *)
(* workspace is empty and the provider answers 200 or 500.                 *)
(***************************************************************************)
InitLive ==
    /\ view = TRUE
    /\ geminiApiKey \in {"", "AIzaStored"}
    /\ input = ""
    /\ isLoading = FALSE
    /\ toHost = <<>>
    /\ toView = <<>>
    /\ turns = <<>>
    /\ Page(InitialDom)
    /\ clears = 0

\* the await turn i is suspended at settles
Settle(i) ==
    \/ InputBoxResolve(i)
    \/ ConfigUpdateResolve(i)
    \/ ConfigUpdateReject(i)
    \/ FindFilesResolve(i, {<<>>})
    \/ FindFilesReject(i)
    \/ FetchResolve(i, {Response(200, "{candidates}", Some(Candidates("ok"))),
                        Response(500, "internal", Undefined)})

\* the event loops of the host and of the webview do their pending work
Pending ==
    \/ HostReceive
    \/ WebviewReceive
    \/ TimerFire
    \/ \E i \in 1..MaxSends : Settle(i)

NextLive ==
    \/ TypeInput
    \/ Send
    \/ Pending

SpecLive == InitLive /\ [][NextLive]_vars /\ WF_vars(Pending)

(***************************************************************************)
(* handleChat entered with or without a view: this._view is null until     *)
(* resolveWebviewView has run (extension.js:39, 45).  The listener that    *)
(* calls handleChat is registered after this._view is set, so the case     *)
(* without a view is that of a call made before the view is resolved.      *)
(***************************************************************************)
InitDetached ==
    /\ view \in BOOLEAN
    /\ geminiApiKey \in {"", "AIzaStored"}
    /\ input = ""
    /\ isLoading = FALSE
    /\ toHost \in {<<ChatMsg(q)>> : q \in {"hi", "why?"}}
    /\ toView = <<>>
    /\ turns = <<>>
    /\ Page(InitialDom)
    /\ clears = 0

SpecDetached == InitDetached /\ [][NextTurn]_vars

(***************************************************************************)
(* Vocabulary of the properties: what a turn's log shows.                  *)
(***************************************************************************)
Turns == 1..Len(turns)
Finished(i) == turns[i].pc = "done"
InFlight == {i \in Turns : ~Finished(i)}

IsPost(e, type) == e.ev = "postMessage" /\ e.msg.type = type
IsLoadingEvent(e, b) == IsPost(e, "loading") /\ e.msg.loading = b
IsRequest(e, api) == e.ev = "fetch" /\ e.api = api
IsSettled(e, api) == e.ev = "settled" /\ e.api = api

LoadingAt(log, b) == {k \in DOMAIN log : IsLoadingEvent(log[k], b)}
ResponsesAt(log) == {k \in DOMAIN log : IsPost(log[k], "response")}
ErrorsAt(log) == {k \in DOMAIN log : IsPost(log[k], "error")}
RequestsAt(log) == {k \in DOMAIN log : log[k].ev = "fetch"}
GenerateAt(log) == {k \in DOMAIN log : IsRequest(log[k], "generateContent")}
ListingAt(log) == {k \in DOMAIN log : IsRequest(log[k], "models")}
GenerateSettledAt(log) == {k \in DOMAIN log : IsSettled(log[k], "generateContent")}
ListingSettledAt(log) == {k \in DOMAIN log : IsSettled(log[k], "models")}

Min(S) == CHOOSE k \in S : \A j \in S : k <= j
Max(S) == CHOOSE k \in S : \A j \in S : k >= j

\* the outcome of the first and of the second generateContent request, and
\* of the listing (meaningful when the turn's log holds that outcome)
FirstOutcome(log) == log[Min(GenerateSettledAt(log))].response
RetryOutcome(log) == log[Max(GenerateSettledAt(log))].response
ListingOutcome(log) == log[Min(ListingSettledAt(log))].response

StartsWith(s, prefix) ==
    Len(s) >= Len(prefix) /\ SubSeq(s, 1, Len(prefix)) = prefix

\* a response the provider answered with a 2xx status and a JSON body
\* holding no error object
Succeeded(r) ==
    /\ ~r.rejected
    /\ Ok(r)
    /\ r.json # Undefined
    /\ "error" \notin DOMAIN r.json[1]

\* ... whose first candidate's first part has a text
HasText(r) ==
    /\ Succeeded(r)
    /\ "candidates" \in DOMAIN r.json[1]
    /\ Len(r.json[1].candidates) > 0
    /\ "content" \in DOMAIN r.json[1].candidates[1]
    /\ "parts" \in DOMAIN r.json[1].candidates[1].content
    /\ Len(r.json[1].candidates[1].content.parts) > 0
    /\ "text" \in DOMAIN r.json[1].candidates[1].content.parts[1]

TextOf(r) == r.json[1].candidates[1].content.parts[1].text

\* a listing that yields no model: it failed, or it lists nothing
ListsNothing(r) ==
    \/ r.rejected
    \/ ~Ok(r)
    \/ r.json = Undefined
    \/ "models" \notin DOMAIN r.json[1]
    \/ Len(r.json[1].models) = 0

\* the model ids a listing response lists, in listing order
Listed(r) ==
    IF ListsNothing(r) THEN <<>>
    ELSE [k \in 1..Len(r.json[1].models) |-> r.json[1].models[k].name]

MessagesAt(log, S) == {log[k].msg.message : k \in S}

(***************************************************************************)
(* C1.  At most one chat turn (a handleChat invocation that has started    *)
(* and not finished) is in flight at any time.                             *)
(* The webview sets isLoading only when the host's loading{true} message   *)
(* is delivered, so a second send() in between posts a second chat event,  *)
(* and the host starts a turn for each.                                    *)
(***************************************************************************)
C1_AtMostOneInFlight == Cardinality(InFlight) <= 1

(***************************************************************************)
(* C2.  In every turn, a loading{true} event precedes every request of the *)
(* turn; an unfinished turn has emitted no loading{false}; a finished turn *)
(* has emitted loading{false} exactly once, as the last entry of its log.  *)
(***************************************************************************)
C2_LoadingBrackets ==
    \A i \in Turns :
        LET log == turns[i].log
        IN /\ \A k \in RequestsAt(log) : \E j \in LoadingAt(log, TRUE) : j < k
           /\ ~Finished(i) => LoadingAt(log, FALSE) = {}
           /\ Finished(i) => LoadingAt(log, FALSE) = {Len(log)}

\* a turn that went through the fallback and failed there has finished
C2_Witness ==
    \E i \in Turns :
        /\ Finished(i)
        /\ Cardinality(GenerateAt(turns[i].log)) = 2
        /\ ErrorsAt(turns[i].log) # {}
        /\ LoadingAt(turns[i].log, FALSE) # {}

(***************************************************************************)
(* C3.  A turn never emits more than one response or error event, an       *)
(* unfinished turn has emitted none and a finished turn has emitted        *)
(* exactly one of the two.                                                 *)
(***************************************************************************)
C3_OneTerminalEvent ==
    \A i \in Turns :
        LET n == Cardinality(ResponsesAt(turns[i].log) \cup ErrorsAt(turns[i].log))
        IN IF Finished(i) THEN n = 1 ELSE n = 0

\* the missing-credential path: the turn ended before any request
C3_Witness ==
    \E i \in Turns :
        /\ Finished(i)
        /\ RequestsAt(turns[i].log) = {}
        /\ turns[i].apiKey = ""
        /\ Cardinality(ErrorsAt(turns[i].log)) = 1

(***************************************************************************)
(* C4.  A turn issues at most two generateContent requests and at most one *)
(* listing request.  A second generateContent request is issued only after *)
(* the first settled with status 404 and the listing, issued in between,   *)
(* yielded a non-empty sequence; nothing is requested after it.            *)
(***************************************************************************)
C4_SingleRetry ==
    \A i \in Turns :
        LET log == turns[i].log
            gen == GenerateAt(log)
        IN /\ Cardinality(gen) <= 2
           /\ Cardinality(ListingAt(log)) <= 1
           /\ ListingAt(log) # {} =>
                 /\ GenerateSettledAt(log) # {}
                 /\ ~FirstOutcome(log).rejected
                 /\ FirstOutcome(log).status = NotFound
                 /\ Min(GenerateSettledAt(log)) < Min(ListingAt(log))
           /\ Cardinality(gen) = 2 =>
                 /\ ListingSettledAt(log) # {}
                 /\ ~ListsNothing(ListingOutcome(log))
                 /\ Min(gen) < Min(ListingAt(log))
                 /\ Min(ListingSettledAt(log)) < Max(gen)
                 /\ \A k \in RequestsAt(log) : k <= Max(gen)

\* the retry itself was answered 404 and the turn has finished
C4_Witness ==
    \E i \in Turns :
        /\ Finished(i)
        /\ Cardinality(GenerateSettledAt(turns[i].log)) = 2
        /\ RetryOutcome(turns[i].log).status = NotFound

(***************************************************************************)
(* C5.  When the first request settled with 404, the listing was not empty *)
(* and the retry succeeded with text t, the turn has emitted exactly one   *)
(* response event, carrying t, and no error event.                         *)
(* Fails for t = "": extension.js:166 replaces a falsy text by the         *)
(* placeholder.                                                            *)
(***************************************************************************)
C5_FallbackSuccess ==
    \A i \in Turns :
        LET log == turns[i].log
        IN (/\ Cardinality(GenerateSettledAt(log)) = 2
            /\ HasText(RetryOutcome(log)))
           => /\ Cardinality(ResponsesAt(log)) = 1
              /\ MessagesAt(log, ResponsesAt(log)) = {TextOf(RetryOutcome(log))}
              /\ ErrorsAt(log) = {}

\* what the code does on that path: one response and no error; the response
\* carries t unless t is empty, and the placeholder then
FallbackSuccessAsCoded ==
    \A i \in Turns :
        LET log == turns[i].log
        IN (/\ Cardinality(GenerateSettledAt(log)) = 2
            /\ HasText(RetryOutcome(log)))
           => /\ Cardinality(ResponsesAt(log)) = 1
              /\ MessagesAt(log, ResponsesAt(log)) =
                    {IF TextOf(RetryOutcome(log)) = "" THEN NoResponse
                     ELSE TextOf(RetryOutcome(log))}
              /\ ErrorsAt(log) = {}

(***************************************************************************)
(* C6.  When the first request settled with 404 and the listing yielded no *)
(* model (it failed, or it listed nothing), the turn issued no retry and   *)
(* has finished with exactly one error event, whose message says that no   *)
(* models are available, and no response event.                            *)
(***************************************************************************)
C6_NoModelsAvailable ==
    \A i \in Turns :
        LET log == turns[i].log
        IN (ListingSettledAt(log) # {} /\ ListsNothing(ListingOutcome(log)))
           => /\ Cardinality(GenerateAt(log)) = 1
              /\ Finished(i)
              /\ ResponsesAt(log) = {}
              /\ Cardinality(ErrorsAt(log)) = 1
              /\ \A m \in MessagesAt(log, ErrorsAt(log)) :
                     Includes(m, "No available models")

\* the listing request itself failed
C6_Witness ==
    \E i \in Turns :
        /\ ListingSettledAt(turns[i].log) # {}
        /\ ListingOutcome(turns[i].log).rejected
        /\ Finished(i)

(***************************************************************************)
(* C7.  When the first request settled with a non-2xx status other than    *)
(* 404, or with a 2xx status and a body holding an error object, the turn  *)
(* issued no listing and no retry and has finished with exactly one error  *)
(* event, whose message carries the status and body, respectively the      *)
(* error object's message.                                                 *)
(***************************************************************************)
C7_DirectFailure ==
    \A i \in Turns :
        LET log == turns[i].log
        IN GenerateSettledAt(log) # {} =>
             LET r == FirstOutcome(log)
                 bad == ~r.rejected /\ ~Ok(r) /\ r.status # NotFound
                 embedded == /\ ~r.rejected /\ Ok(r) /\ r.json # Undefined
                             /\ "error" \in DOMAIN r.json[1]
             IN (bad \/ embedded)
                => /\ ListingAt(log) = {}
                   /\ Cardinality(GenerateAt(log)) = 1
                   /\ Finished(i)
                   /\ ResponsesAt(log) = {}
                   /\ Cardinality(ErrorsAt(log)) = 1
                   /\ \A m \in MessagesAt(log, ErrorsAt(log)) :
                          IF bad
                          THEN Includes(m, ToString(r.status) \o " - " \o r.raw)
                          ELSE Includes(m, r.json[1].error.message)

\* the first request was answered 500
C7_Witness ==
    \E i \in Turns :
        /\ Finished(i)
        /\ GenerateSettledAt(turns[i].log) # {}
        /\ FirstOutcome(turns[i].log).status = 500
        /\ ErrorsAt(turns[i].log) # {}

(***************************************************************************)
(* C8.  A finished turn that issued a generateContent request and emitted  *)
(* no response has emitted exactly one error event.  As claimed, its       *)
(* message is "Failed with model {id}: {cause}", id the model of the       *)
(* turn's most recent generateContent request.                             *)
(* Fails: the outer catch (extension.js:198) prefixes "Error: ".           *)
(***************************************************************************)
LastRequestedModel(log) == log[Max(GenerateAt(log))].model

C8_EnvelopeAsClaimed ==
    \A i \in Turns :
        LET log == turns[i].log
        IN (Finished(i) /\ GenerateAt(log) # {} /\ ResponsesAt(log) = {})
           => /\ Cardinality(ErrorsAt(log)) = 1
              /\ \A m \in MessagesAt(log, ErrorsAt(log)) :
                     StartsWith(m, "Failed with model " \o LastRequestedModel(log) \o ": ")

(***************************************************************************)
(* C8, amended.  ... its message is "Error: Failed with model {id}:        *)
(* {cause}", id the model of the turn's most recent generateContent        *)
(* request: the default model when no retry was made, the first listed     *)
(* model of the preferred family, else the first listed model, when the    *)
(* retry failed.                                                           *)
(***************************************************************************)
C8_Envelope ==
    \A i \in Turns :
        LET log == turns[i].log
        IN (Finished(i) /\ GenerateAt(log) # {} /\ ResponsesAt(log) = {})
           => /\ Cardinality(ErrorsAt(log)) = 1
              /\ \A m \in MessagesAt(log, ErrorsAt(log)) :
                     /\ StartsWith(m, "Error: Failed with model "
                                      \o LastRequestedModel(log) \o ": ")
                     /\ Len(m) > Len("Error: Failed with model "
                                     \o LastRequestedModel(log) \o ": ")
              /\ LastRequestedModel(log) = turns[i].model
              /\ Cardinality(GenerateAt(log)) = 1 => turns[i].model = "gemini-1.5-flash"

\* the retry, to a model other than the default one, failed
C8_Witness ==
    \E i \in Turns :
        /\ Finished(i)
        /\ Cardinality(GenerateAt(turns[i].log)) = 2
        /\ LastRequestedModel(turns[i].log) # DefaultModel
        /\ ErrorsAt(turns[i].log) # {}

(***************************************************************************)
(* C9.  A chat event delivered to the host while an earlier turn has not   *)
(* finished starts no turn and posts nothing to the webview.               *)
(* The listener of extension.js:52-63 calls handleChat for every chat      *)
(* event; handleChat tests only this._view.                                *)
(***************************************************************************)
C9_HostSerializes ==
    [][(/\ toHost # <<>>
        /\ toHost' = Tail(toHost)
        /\ Head(toHost).type = "chat"
        /\ InFlight # {})
       => (turns' = turns /\ toView' = toView)]_vars

(***************************************************************************)
(* C10.  Once the listing has settled: if it listed no model, no retry is  *)
(* issued and the turn fails with the no-models error; otherwise the retry *)
(* is issued to the lowest-index listed id that contains "gemini-1.5", or  *)
(* to the id at index 0 when no listed id contains it.                     *)
(***************************************************************************)
C10_FallbackChoice ==
    \A i \in Turns :
        LET log == turns[i].log
        IN ListingSettledAt(log) # {} =>
             LET ms == Listed(ListingOutcome(log))
                 preferred == {k \in 1..Len(ms) : Includes(ms[k], "gemini-1.5")}
             IN IF Len(ms) = 0
                THEN /\ Cardinality(GenerateAt(log)) = 1
                     /\ \E k \in ErrorsAt(log) :
                            Includes(log[k].msg.message, NoModelsMessage)
                ELSE /\ Cardinality(GenerateAt(log)) = 2
                     /\ LastRequestedModel(log) =
                           IF preferred # {} THEN ms[Min(preferred)] ELSE ms[1]

\* a listing whose first id is not of the preferred family and whose second
\* is: the retry went to the second
C10_Witness ==
    \E i \in Turns :
        /\ ListingSettledAt(turns[i].log) # {}
        /\ Len(Listed(ListingOutcome(turns[i].log))) = 2
        /\ ~Includes(Listed(ListingOutcome(turns[i].log))[1], "gemini-1.5")
        /\ Includes(Listed(ListingOutcome(turns[i].log))[2], "gemini-1.5")
        /\ Cardinality(GenerateAt(turns[i].log)) = 2

(***************************************************************************)
(* C11.  Every generateContent request answered 404, the first of a turn   *)
(* or the retry, has the model-not-found outcome (the fallback is entered: *)
(* the listing is requested next) and never the generic API error.         *)
(* Fails for the retry: extension.js:159-161 throws the generic            *)
(* "API Error: 404 - ..." for every non-2xx status.                        *)
(***************************************************************************)
C11_NotFoundDistinguished ==
    \A i \in Turns :
        LET log == turns[i].log
        IN \A k \in GenerateSettledAt(log) :
               (~log[k].response.rejected /\ log[k].response.status = NotFound)
               => /\ k + 1 \in ListingAt(log)
                  /\ \A m \in MessagesAt(log, ErrorsAt(log)) :
                         ~Includes(m, "API Error: 404")

(***************************************************************************)
(* C12.  A 200 response to a generateContent request, first attempt or     *)
(* retry, whose first candidate has the text t yields a response event     *)
(* carrying exactly t, for every t, the empty string included.             *)
(* Fails for t = "": extension.js:166 and 185 replace a falsy text by the  *)
(* placeholder.                                                            *)
(***************************************************************************)
C12_TextVerbatim ==
    \A i \in Turns :
        LET log == turns[i].log
        IN \A k \in GenerateSettledAt(log) :
               HasText(log[k].response)
               => MessagesAt(log, ResponsesAt(log)) = {TextOf(log[k].response)}

(***************************************************************************)
(* C13.  A 2xx response to a generateContent request, first attempt or     *)
(* retry, whose JSON body holds no error object and no candidates, no      *)
(* content, no parts or no text yields exactly one response event, which   *)
(* carries "No response received", and no error event.                     *)
(***************************************************************************)
C13_Placeholder ==
    \A i \in Turns :
        LET log == turns[i].log
        IN \A k \in GenerateSettledAt(log) :
               (Succeeded(log[k].response) /\ ~HasText(log[k].response))
               => /\ Cardinality(ResponsesAt(log)) = 1
                  /\ MessagesAt(log, ResponsesAt(log)) = {"No response received"}
                  /\ ErrorsAt(log) = {}

\* the retry was answered 200 with an empty candidates array
C13_Witness ==
    \E i \in Turns :
        /\ Cardinality(GenerateSettledAt(turns[i].log)) = 2
        /\ Succeeded(RetryOutcome(turns[i].log))
        /\ "candidates" \in DOMAIN RetryOutcome(turns[i].log).json[1]
        /\ Len(RetryOutcome(turns[i].log).json[1].candidates) = 0
        /\ Finished(i)

(***************************************************************************)
(* C14.  The listing never raises.  Once it has settled, the turn's models *)
(* are the empty sequence when the request was rejected, answered with a   *)
(* non-2xx status or with a body that holds no models list, and the listed *)
(* names in listing order otherwise; the turn goes on from there: to the   *)
(* retry, or to the no-models error of extension.js:173.                   *)
(***************************************************************************)
C14_ListingNeverRaises ==
    \A i \in Turns :
        LET log == turns[i].log
        IN ListingSettledAt(log) # {} =>
             LET r == ListingOutcome(log)
                 failed == \/ r.rejected
                           \/ r.status < 200 \/ r.status > 299
                           \/ r.json = Undefined
                           \/ "models" \notin DOMAIN r.json[1]
                 names == IF failed THEN <<>>
                          ELSE [k \in 1..Len(r.json[1].models) |-> r.json[1].models[k].name]
             IN /\ turns[i].models = names
                /\ IF names = <<>>
                   THEN MessagesAt(log, ErrorsAt(log)) =
                           {"Error: Failed with model gemini-1.5-flash: " \o NoModelsMessage}
                   ELSE Cardinality(GenerateAt(log)) = 2

\* the listing was answered 403
C14_Witness ==
    \E i \in Turns :
        /\ ListingSettledAt(turns[i].log) # {}
        /\ ~ListingOutcome(turns[i].log).rejected
        /\ ListingOutcome(turns[i].log).status = 403
        /\ turns[i].models = <<>>

(***************************************************************************)
(* C15.  When no credential is stored and the first-use prompt is          *)
(* dismissed or returns the empty string, the turn has finished with       *)
(* exactly one error event (the API-key-required message) and no response, *)
(* has called neither findFiles nor openTextDocument nor fetch nor         *)
(* config.update, and its last event is loading{false}; the setting is     *)
(* still unset.                                                            *)
(***************************************************************************)
PromptAt(log) == {k \in DOMAIN log : log[k].ev = "showInputBox"}

C15_MissingCredential ==
    \A i \in Turns :
        LET log == turns[i].log
        IN (\E k \in PromptAt(log) : Falsy(log[k].result))
           => /\ Finished(i)
              /\ Cardinality(ErrorsAt(log)) = 1
              /\ \A m \in MessagesAt(log, ErrorsAt(log)) : StartsWith(m, "API key is required")
              /\ ResponsesAt(log) = {}
              /\ \A k \in DOMAIN log :
                     log[k].ev \notin {"findFiles", "files", "openTextDocument",
                                       "fetch", "settled", "configUpdate"}
              /\ IsLoadingEvent(log[Len(log)], FALSE)
              /\ geminiApiKey = ""

\* the prompt was dismissed
C15_Witness ==
    \E i \in Turns :
        /\ \E k \in PromptAt(turns[i].log) : turns[i].log[k].result = Undefined
        /\ Finished(i)

(***************************************************************************)
(* C16.  As claimed: no step taken while a turn is in flight changes the   *)
(* persisted credential.                                                   *)
(* Fails: a turn that found no credential and was given one by the         *)
(* first-use prompt stores it (extension.js:129).                          *)
(***************************************************************************)
C16_ReadOnly ==
    [][InFlight # {} => geminiApiKey' = geminiApiKey]_vars

(***************************************************************************)
(* C16, amended.  The persisted credential changes during a turn only by   *)
(* that turn's config.update: the turn read an unset credential at its     *)
(* start, the first-use prompt returned a non-empty value, and that value  *)
(* is what is stored.  A turn that read a stored credential changes        *)
(* nothing.                                                                *)
(***************************************************************************)
C16_WrittenOnFirstUse ==
    [][geminiApiKey' # geminiApiKey
       => \E i \in Turns :
              /\ turns[i].pc = "configUpdate"
              /\ turns'[i].pc # "configUpdate"
              /\ \E k \in DOMAIN turns[i].log : turns[i].log[k] = ConfigGet("")
              /\ \E k \in PromptAt(turns[i].log) :
                     turns[i].log[k].result = Some(geminiApiKey')
              /\ geminiApiKey' # ""]_vars

\* a turn has stored the key the prompt returned
C16_Witness ==
    /\ geminiApiKey \in Keys
    /\ \E i \in Turns :
           \E k \in DOMAIN turns[i].log : turns[i].log[k] = ConfigUpdate(geminiApiKey)

(***************************************************************************)
(* C17.  The context blob of a turn holds at most 10 file blocks, and an   *)
(* unreadable file removes only itself: every enumerated file is read,     *)
(* in enumeration order, whatever happened to the files before it; the     *)
(* block of every readable one is in the blob, which is part of the        *)
(* prompt sent; no unreadable one has a block.                             *)
(***************************************************************************)
FileMarker == "--- FILE: "

\* the number of positions of s at which pat starts
Occurrences(s, pat) ==
    Cardinality({k \in 1..Len(s) : /\ k + Len(pat) - 1 <= Len(s)
                                   /\ SubSeq(s, k, k + Len(pat) - 1) = pat})

EnumeratedAt(log) == {k \in DOMAIN log : log[k].ev = "files"}
ReadsAt(log) == {k \in DOMAIN log : log[k].ev = "openTextDocument"}

C17_BoundedSample ==
    \A i \in Turns :
        LET log == turns[i].log
            blob == turns[i].codeContext
        IN /\ Occurrences(blob, FileMarker) <= 10
           /\ GenerateAt(log) # {} =>
                 LET files == log[Min(EnumeratedAt(log))].files
                 IN /\ Cardinality(ReadsAt(log)) = Len(files)
                    /\ \A k \in ReadsAt(log) :
                           LET n == Cardinality({j \in ReadsAt(log) : j <= k})
                               f == files[n]
                           IN /\ log[k].file = f
                              /\ log[k].readable =>
                                    Includes(blob, "\n--- FILE: " \o f \o " ---\n"
                                                   \o FileText(f) \o "\n")
                              /\ ~log[k].readable =>
                                    ~Includes(blob, FileMarker \o f \o " ---")
                    /\ Occurrences(blob, FileMarker)
                         = Cardinality({k \in ReadsAt(log) : log[k].readable})
                    /\ Includes(log[Min(GenerateAt(log))].text, blob)

\* the enumeration returned the maximum of 10 files, the second was
\* unreadable, the third and the last were read, and the request was issued
C17_Witness ==
    \E i \in Turns :
        LET log == turns[i].log
        IN /\ GenerateAt(log) # {}
           /\ EnumeratedAt(log) # {}
           /\ Len(log[Min(EnumeratedAt(log))].files) = 10
           /\ \E k \in ReadsAt(log) : log[k].file = "f2.js" /\ ~log[k].readable
           /\ \E k \in ReadsAt(log) : log[k].file = "f3.js" /\ log[k].readable
           /\ \E k \in ReadsAt(log) : log[k].file = "f10.js" /\ log[k].readable

(***************************************************************************)
(* C20.  The first generateContent request of every turn names the default *)
(* model, whatever model an earlier turn fell back to.                     *)
(***************************************************************************)
C20_DefaultModelFirst ==
    \A i \in Turns :
        LET log == turns[i].log
        IN GenerateAt(log) # {} => log[Min(GenerateAt(log))].model = "gemini-1.5-flash"

\* an earlier turn retried with gemini-pro and finished; a later turn has
\* issued its first request
C20_Witness ==
    \E i, j \in Turns :
        /\ i < j
        /\ Finished(i)
        /\ turns[i].model = "gemini-pro"
        /\ Cardinality(GenerateAt(turns[i].log)) = 2
        /\ GenerateAt(turns[j].log) # {}

(***************************************************************************)
(* C18.  Sampling never fails: a turn that called findFiles and has left   *)
(* the sampling has issued its generateContent request.                    *)
(* Fails when findFiles rejects: the call (extension.js:89) is outside the *)
(* try of getWorkspaceContext, and the rejection ends the turn in the      *)
(* outer catch of handleChat.                                              *)
(***************************************************************************)
C18_SamplingNeverFails ==
    \A i \in Turns :
        LET log == turns[i].log
        IN (/\ \E k \in DOMAIN log : log[k].ev = "findFiles"
            /\ turns[i].pc \notin {"findFiles", "openTextDocument"})
           => GenerateAt(log) # {}

(***************************************************************************)
(* C19.  A clear event resets the UI in every state: the host answers it   *)
(* with exactly one clearChat event and does nothing else, and when the    *)
(* webview has processed a clearChat event the message list holds the      *)
(* welcome block and nothing else and the message count is 0.              *)
(* Fails once the welcome block has been removed (300 ms after the first   *)
(* send): createWelcomeMessage (extension.js:777-779) clones the block of  *)
(* the page, finds none and throws before the list is emptied.             *)
(***************************************************************************)
C19_ClearResets ==
    [][/\ (toHost # <<>> /\ Head(toHost).type = "clear" /\ toHost' = Tail(toHost))
          => /\ toView' = Append(toView, [type |-> "clearChat"])
             /\ turns' = turns
       /\ (toView # <<>> /\ Head(toView).type = "clearChat" /\ toView' = Tail(toView))
          => /\ Len(messages') = 1
             /\ messages'[1].kind = "welcome"
             /\ messageCount' = 0]_vars

(***************************************************************************)
(* C23.  A turn calls findFiles once and reads each enumerated file once;  *)
(* every generateContent request of the turn, the retry included, carries  *)
(* the same prompt: the fixed preamble, then the blocks of the files that  *)
(* could be read, in enumeration order, then the labelled question.        *)
(***************************************************************************)
\* the blocks of the files of `files' that the log shows as read, in order
RECURSIVE BlocksInOrder(_, _)
BlocksInOrder(files, log) ==
    IF Len(files) = 0 THEN ""
    ELSE LET f == Head(files)
             read == \E k \in DOMAIN log :
                         /\ log[k].ev = "openTextDocument"
                         /\ log[k].file = f
                         /\ log[k].readable
         IN (IF read THEN "\n--- FILE: " \o f \o " ---\n" \o FileText(f) \o "\n" ELSE "")
            \o BlocksInOrder(Tail(files), log)

C23_PromptBuiltOnce ==
    \A i \in Turns :
        LET log == turns[i].log
            calls == {k \in DOMAIN log : log[k].ev = "findFiles"}
        IN /\ Cardinality(calls) <= 1
           /\ \A j, k \in DOMAIN log :
                  (/\ j # k
                   /\ log[j].ev = "openTextDocument"
                   /\ log[k].ev = "openTextDocument") => log[j].file # log[k].file
           /\ \A k \in GenerateAt(log) :
                  /\ Cardinality(calls) = 1
                  /\ log[k].text =
                        "You are DevGear AI. The user is asking about the codebase.\n"
                        \o "Here is relevant code context:\n"
                        \o BlocksInOrder(log[Min({e \in DOMAIN log : log[e].ev = "files"})].files, log)
                        \o "\n\nUser question: " \o turns[i].userMessage

\* a retry was issued in a workspace of three files or more, the second unreadable
C23_Witness ==
    \E i \in Turns :
        LET log == turns[i].log
        IN /\ Cardinality(GenerateAt(log)) = 2
           /\ log[Max(GenerateAt(log))].model = "gemini-pro"
           /\ \E k \in DOMAIN log : log[k].ev = "files" /\ Len(log[k].files) >= 3
           /\ \E k \in DOMAIN log :
                  log[k].ev = "openTextDocument" /\ log[k].file = "f2.js" /\ ~log[k].readable
           /\ \E k \in DOMAIN log :
                  log[k].ev = "openTextDocument" /\ log[k].file = "f3.js" /\ log[k].readable

(***************************************************************************)
(* C24.  The messages a turn has posted are, in order: loading{true}, then *)
(* (once it has finished) its one response or error, then loading{false}.  *)
(* An unfinished turn has posted loading{true} and nothing else.           *)
(***************************************************************************)
C24_EventOrder ==
    \A i \in Turns :
        LET posts == PostsOf(turns[i].log)
        IN /\ Len(posts) >= 1
           /\ posts[1] = [type |-> "loading", loading |-> TRUE]
           /\ IF turns[i].pc = "done"
              THEN /\ Len(posts) = 3
                   /\ posts[2].type \in {"response", "error"}
                   /\ posts[3] = [type |-> "loading", loading |-> FALSE]
              ELSE Len(posts) = 1

\* a turn answered by the provider has finished
C24_Witness ==
    \E i \in Turns :
        /\ turns[i].pc = "done"
        /\ PostsOf(turns[i].log)[2].type = "response"
        /\ GenerateSettledAt(turns[i].log) # {}

(***************************************************************************)
(* C22.  A step posts a chat event, adds a user message to the list or     *)
(* empties the input only as a send with a non-blank input while isLoading *)
(* is false, and then it does all three: the event carries the trimmed     *)
(* input.  With a blank input or while loading, send changes nothing.      *)
(***************************************************************************)
C22_SendGuard ==
    [][LET posted == /\ Len(toHost') = Len(toHost) + 1
                     /\ toHost'[Len(toHost')].type = "chat"
           listed == /\ Len(messages') = Len(messages) + 1
                     /\ messages'[Len(messages')].kind = "user"
           emptied == input' # input /\ input' = ""
       IN (posted \/ listed \/ emptied)
          => /\ Trim(input) # ""
             /\ ~isLoading
             /\ toHost' = Append(toHost, [type |-> "chat", text |-> Trim(input)])
             /\ listed
             /\ input' = ""]_vars

\* a chat event was posted, and now a non-blank input waits while isLoading
\* is true: send returns without effect
C22_Witness ==
    /\ turns # <<>>
    /\ isLoading
    /\ Trim(input) # ""
    /\ Len(turns) + Len(toHost) < MaxSends

(***************************************************************************)
(* C25.  When no turn is in flight, no message waits on either side and no *)
(* removal timer is pending, the message list holds no typing indicator    *)
(* and isLoading is false.                                                 *)
(* Fails: removeTypingIndicator (extension.js:897-903) looks the indicator *)
(* up by id and schedules the removal of the first one in the page; while  *)
(* that one is still attached, every later call schedules the same node    *)
(* again, and an indicator appended meanwhile is never removed.            *)
(***************************************************************************)
Quiescent ==
    /\ \A i \in 1..Len(turns) : turns[i].pc = "done"
    /\ toHost = <<>>
    /\ toView = <<>>
    /\ timers = <<>>

C25_NoStaleIndicator ==
    Quiescent => /\ ~isLoading
                 /\ \A k \in DOMAIN messages : messages[k].kind # "typing"

(***************************************************************************)
(* C26.  handleChat entered while no view is attached has no effect: the   *)
(* step that delivers the chat request starts no turn (so no credential    *)
(* read, prompt, sampling or request), posts nothing to the webview and    *)
(* leaves the stored credential as it is.                                  *)
(***************************************************************************)
C26_DroppedWithoutView ==
    [][(/\ ~view
        /\ toHost # <<>>
        /\ Head(toHost).type = "chat"
        /\ toHost' = Tail(toHost))
       => /\ turns' = turns
          /\ toView' = toView
          /\ geminiApiKey' = geminiApiKey]_vars

\* the request was handled without a view
C26_Witness ==
    /\ ~view
    /\ toHost = <<>>
    /\ turns = <<>>

(***************************************************************************)
(* C21.  Under the fairness of SpecLive every started turn finishes (its   *)
(* last event is loading{false}), and after a turn that ended with an      *)
(* error the webview comes to rest with isLoading false, so that send is   *)
(* enabled again; a turn started after it runs like any other.             *)
(***************************************************************************)
Started(i) == i <= Len(turns)

EndedInError(i) ==
    /\ Started(i)
    /\ turns[i].pc = "done"
    /\ \E k \in DOMAIN turns[i].log :
           turns[i].log[k].ev = "postMessage" /\ turns[i].log[k].msg.type = "error"

C21_NoErrorIsFatal ==
    /\ \A i \in 1..MaxSends :
           Started(i) ~> (/\ Started(i)
                          /\ turns[i].pc = "done"
                          /\ turns[i].log[Len(turns[i].log)]
                                = [ev |-> "postMessage",
                                   msg |-> [type |-> "loading", loading |-> FALSE]])
    /\ \A i \in 1..MaxSends :
           EndedInError(i) ~> (toView = <<>> /\ ~isLoading)

\* the page shows an error, below it a later user message and below that
\* the answer to it; the webview is at rest with isLoading false
C21_Witness ==
    /\ \E p, q, r \in DOMAIN messages :
           /\ p < q /\ q < r
           /\ messages[p].kind = "error"
           /\ messages[q].kind = "user"
           /\ messages[r].kind = "ai"
    /\ \E i, j \in 1..Len(turns) :
           /\ i < j
           /\ EndedInError(i)
           /\ turns[j].pc = "done"
           /\ ~EndedInError(j)
    /\ toView = <<>>
    /\ ~isLoading
====
